---- MODULE Spec2Model ----
(***************************************************************************)
(* The reactive telemetry / video store layer of the ground station        *)
(* (src/bindings/middleware.ts): TelemetryStore and VideoStore on top of   *)
(* the backend gateway (invoke) and the event bridge (listen).             *)
(*                                                                         *)
(* One JavaScript event loop: every action below is one run-to-completion  *)
(* task (a call made by the UI, the continuation of an await, or the       *)
(* delivery of one event to one listener).  The native backend runs beside *)
(* it: it answers requests and emits events at its own pace.               *)
(* The App component (src/App.tsx) and its sim_data listener run on the    *)
(* same loop.                                                              *)
(***************************************************************************)
EXTENDS Integers, Sequences, FiniteSets, TLC

\* ------------------------------------------------------------------ bounds
MaxCap == 3        \* largest window size a store is constructed with
MaxEmit == 2       \* records the producer emits in one run
MaxAppend == 5     \* records the producer emits in a run of scenario "window"
MaxCalls == 2      \* start() and refresh() calls made on the store in one run
MaxSubs == 2       \* subscribe() is called while fewer than that are registered
MaxFrames == 2     \* frames the cameras emit in one run
MaxSim == 2        \* sim_data events the simulation emits in one run
MaxSubmit == 2     \* times the App's form is submitted in one run

\* null: timestamps and listener ids start at 1
Null == 0
Keys == {"A", "B"}                  \* stream keys the producer writes to
StoreKey == "A"                     \* key the TelemetryStore was constructed with
Callbacks == {"cb1", "cb2"}         \* subscriber callbacks of the UI
CallIds == 1..MaxCalls
AppListeners == {"sim"}             \* the listener the App's effect registers

VARIABLES
    scenario,      \* what the UI does with the store in this run, see Next
    \* --- TelemetryStore fields
    maxPoints,     \* this.maxPoints
    data,          \* this.data
    currentData,   \* this.currentData
    subscribers,   \* this.subscribers (an array: order and repetitions kept)
    unlisten,      \* this.unlisten: Null or the listener its UnlistenFn cancels
    \* --- the UI's handles on the TelemetryStore
    calls,         \* start() and refresh() calls: [kind, pc, reply] per call
    disposers,     \* callbacks for which the UI holds a Disposer of subscribe()
    \* --- backend and event bridge, channel telemetry-update
    backend,       \* records the backend holds per key
    emitted,       \* emitted[t] = key of the record with timestamp t
    live,          \* listeners registered on the channel
    queue,         \* queue[l]: payloads scheduled for listener l, not yet run
    \* --- observation
    wantLive,      \* TRUE when the latest of the start()/stop() calls is a start()
    notified,      \* callbacks invoked by the latest task, in call order
    visited,       \* callbacks the forEach of notify() called in that task
    shown,         \* the argument of each call of notified, in call order
    seeded,        \* snapshot of the latest seeding (start or refresh)
    pushed,        \* payloads the push handler appended since that seeding
    disposed,      \* callbacks of which a Disposer has been called
    \* --- VideoStore fields, one store per key
    currentFrame,  \* this.currentFrame
    vSubscribers,  \* this.subscribers
    vUnlisten,     \* this.unlisten: NoListener or the listener it cancels
    \* --- the UI's handles on the VideoStores
    vCall,         \* the start() call made on each store: [pc, reply]
    vRefresh,      \* the refresh() call made on each store: [pc, reply]
    vDisposers,    \* callbacks for which the UI holds a Disposer, per store
    \* --- backend and event bridge, channel video-frame-update
    latestFrame,   \* latest frame the backend holds per key
    frames,        \* frames[t] = key of the frame with timestamp t
    vLive,         \* listeners registered on the channel (named by their store)
    vQueue,        \* vQueue[l]: payloads scheduled for listener l, not yet run
    vNotified,     \* callbacks each store invoked in the latest task
    vShown,        \* the argument of each of these calls
    \* --- App component: the effect of lines 30-61 and the state it sets
    appPc,         \* the effect's async function: "none", "listening", "done"
    appCleaned,    \* TRUE once the effect's cleanup has run
    unsubsArrays,  \* the arrays of lines 31 (index 1) and 59 (index 2)
    unsubsRef,     \* the array the variable unsubs is bound to
    appData,       \* state data
    serverResponse,\* state serverResponse
    simRunning,    \* state simRunning
    simCmds,       \* start_data_sim / stop_data_sim calls awaiting invoke()
    submits,       \* number of times the form was submitted
    \* --- backend and event bridge, channel sim_data
    simSent,       \* number of sim_data events emitted
    simLive,       \* listeners registered on the channel
    simQueue       \* simQueue[l]: payloads scheduled for listener l

tvars == <<maxPoints, data, currentData, subscribers, unlisten, calls,
           disposers, backend, emitted, live, queue, wantLive, notified,
           visited, shown, seeded, pushed, disposed>>
vvars == <<currentFrame, vSubscribers, vUnlisten, vCall, vRefresh, vDisposers,
           latestFrame, frames, vLive, vQueue, vNotified, vShown>>
avars == <<appPc, appCleaned, unsubsArrays, unsubsRef, appData,
           serverResponse, simRunning, simCmds, submits, simSent, simLive,
           simQueue>>
vars == <<scenario, tvars, vvars, avars>>

\* -------------------------------------------------------------- sequences
Min(a, b) == IF a < b THEN a ELSE b

\* Array.prototype.slice(-n): the last n elements; slice(-0) is slice(0),
\* the whole array.
SliceLast(s, n) ==
    IF n = 0 \/ n >= Len(s) THEN s
    ELSE SubSeq(s, Len(s) - n + 1, Len(s))

\* Array.prototype.filter(cb => cb # callback)
FilterOut(s, c) == SelectSeq(s, LAMBDA x : x # c)

Range(s) == {s[i] : i \in 1..Len(s)}

Count(s, c) == Cardinality({i \in 1..Len(s) : s[i] = c})

\* --------------------------------------------------------- TelemetryStore
\* [...this.data, data].slice(-this.maxPoints)
AppendWindowKeepOldest(d, r, n) == SubSeq(d \o <<r>>, 1, Min(n, Len(d) + 1))
AppendWindowNoSlice(d, r, n) == d \o <<r>>
AppendWindow(d, r, n) == SliceLast(d \o <<r>>, n)

\* if (existing.length > 0) this.currentData = existing[existing.length - 1]
LatestOf(existing, old) ==
    IF Len(existing) > 0 THEN existing[Len(existing)] ELSE old

\* this.subscribers.forEach(callback => callback(this.data)), the callbacks
\* doing nothing to the store while they are called
Notify(subs) == subs

\* the arguments of these calls: every callback is handed arg
Shown(subs, arg) == [j \in 1..Len(subs) |-> arg]

\* get_telemetry(key, count): the most recent count records of the key
GetTelemetry(k, count) ==
    IF count = 0 THEN <<>> ELSE SliceLast(backend[k], count)

NoCall == [kind |-> "none", pc |-> "none", reply |-> <<>>]
NoVCall == [pc |-> "none", reply |-> Null]
\* this.unlisten = null of a VideoStore (its listeners are named by keys)
NoListener == "none"

\* calls are numbered in the order they are made
NextCallId(i) ==
    /\ calls[i].pc = "none"
    /\ \A j \in CallIds : j < i => calls[j].pc # "none"

Init ==
    /\ scenario \in {"lifecycle", "refreshing", "window", "fanout", "video",
                     "observed", "videorefresh", "reentrant", "zerocap",
                     "app"}
    \* new TelemetryStore(key, maxPoints): the constructor takes any number
    /\ maxPoints \in IF scenario = "zerocap" THEN {0} ELSE 1..MaxCap
    /\ data = <<>>
    /\ currentData = Null
    /\ subscribers = <<>>
    /\ unlisten = Null
    /\ calls = [i \in CallIds |-> NoCall]
    /\ disposers = {}
    /\ backend = [k \in Keys |-> <<>>]
    /\ emitted = <<>>
    /\ live = {}
    /\ queue = [l \in CallIds |-> <<>>]
    /\ wantLive = FALSE
    /\ notified = <<>>
    /\ visited = <<>>
    /\ shown = <<>>
    /\ seeded = <<>>
    /\ pushed = <<>>
    /\ disposed = {}
    /\ currentFrame = [s \in Keys |-> Null]
    /\ vSubscribers = [s \in Keys |-> <<>>]
    /\ vUnlisten = [s \in Keys |-> NoListener]
    /\ vCall = [s \in Keys |-> NoVCall]
    /\ vRefresh = [s \in Keys |-> NoVCall]
    /\ vDisposers = [s \in Keys |-> {}]
    /\ latestFrame = [k \in Keys |-> Null]
    /\ frames = <<>>
    /\ vLive = {}
    /\ vQueue = [s \in Keys |-> <<>>]
    /\ vNotified = [s \in Keys |-> <<>>]
    /\ vShown = [s \in Keys |-> <<>>]
    /\ appPc = "none"
    /\ appCleaned = FALSE
    /\ unsubsArrays = [a \in 1..2 |-> <<>>]
    /\ unsubsRef = 1
    /\ appData = <<>>
    /\ serverResponse = ""
    /\ simRunning = FALSE
    /\ simCmds = <<>>
    /\ submits = 0
    /\ simSent = 0
    /\ simLive = {}
    /\ simQueue = [l \in AppListeners |-> <<>>]

\* ---- the producer and the backend
\* set_telemetry(key, data): the backend stores the record and emits it on
\* telemetry-update to every registered listener.
TEmit(k) ==
    /\ LET t == Len(emitted) + 1 IN
        /\ emitted' = Append(emitted, k)
        /\ backend' = [backend EXCEPT ![k] = Append(@, t)]
        /\ queue' = [l \in CallIds |->
                        IF l \in live THEN Append(queue[l], t) ELSE queue[l]]
    /\ notified' = <<>>
    /\ visited' = <<>>
    /\ shown' = <<>>
    /\ UNCHANGED <<scenario, avars, vvars, disposed, wantLive, maxPoints, data, currentData, subscribers,
                   unlisten, calls, disposers, live, seeded, pushed>>

\* clear_telemetry_key(key)
TClearKey(k) ==
    /\ backend[k] # <<>>
    /\ backend' = [backend EXCEPT ![k] = <<>>]
    /\ notified' = <<>>
    /\ visited' = <<>>
    /\ shown' = <<>>
    /\ UNCHANGED <<scenario, avars, vvars, disposed, wantLive, maxPoints, data, currentData, subscribers,
                   unlisten, calls, disposers, emitted, live, queue, seeded,
                   pushed>>

\* ---- start()
\* line 277, up to the await: get_telemetry(key, maxPoints) is requested.  The
\* backend takes the snapshot (ok) or rejects the call (~ok) here: the request
\* changes no field of the store, so a backend that handles it later behaves
\* as one that gets the request later.
TStart(i, ok) ==
    /\ NextCallId(i)
    /\ calls' = [calls EXCEPT ![i] =
                    IF ok THEN [kind |-> "start", pc |-> "fetched",
                                reply |-> GetTelemetry(StoreKey, maxPoints)]
                          ELSE [kind |-> "start", pc |-> "rejected",
                                reply |-> <<>>]]
    /\ wantLive' = TRUE
    /\ notified' = <<>>
    /\ visited' = <<>>
    /\ shown' = <<>>
    /\ UNCHANGED <<scenario, avars, vvars, disposed, maxPoints, data, currentData, subscribers,
                   unlisten, disposers, backend, emitted, live, queue, seeded,
                   pushed>>

\* lines 277-284, from the resolved await to the next one: seed, notify, and
\* ask the event bridge for a listener
TStartSeedMerges(i) ==
    /\ calls[i].kind = "start"
    /\ calls[i].pc = "fetched"
    /\ LET existing == calls[i].reply IN
        /\ data' = SliceLast(data \o existing, maxPoints)
        /\ currentData' = LatestOf(existing, currentData)
        /\ seeded' = existing
    /\ pushed' = <<>>
    /\ notified' = Notify(subscribers)
    /\ visited' = Notify(subscribers)
    /\ shown' = Shown(subscribers, data')
    /\ calls' = [calls EXCEPT ![i] = [@ EXCEPT !.pc = "listening", !.reply = <<>>]]
    /\ UNCHANGED <<scenario, avars, vvars, disposed, wantLive, maxPoints,
                   subscribers, unlisten, disposers, backend, emitted, live,
                   queue>>

TStartSeed(i) ==
    /\ calls[i].kind = "start"
    /\ calls[i].pc = "fetched"
    /\ LET existing == calls[i].reply IN
        /\ data' = existing
        /\ currentData' = LatestOf(existing, currentData)
        /\ seeded' = existing
    /\ pushed' = <<>>
    /\ notified' = Notify(subscribers)
    /\ visited' = Notify(subscribers)
    /\ shown' = Shown(subscribers, data')
    /\ calls' = [calls EXCEPT ![i] = [@ EXCEPT !.pc = "listening", !.reply = <<>>]]
    /\ UNCHANGED <<scenario, avars, vvars, disposed, wantLive, maxPoints, subscribers, unlisten, disposers,
                   backend, emitted, live, queue>>

\* line 277 when get_telemetry rejects: the await throws out of start()
TStartFailLosesData(i) ==
    /\ calls[i].kind = "start"
    /\ calls[i].pc = "rejected"
    /\ calls' = [calls EXCEPT ![i] = [@ EXCEPT !.pc = "failed"]]
    /\ data' = <<>>
    /\ notified' = Notify(subscribers)
    /\ visited' = Notify(subscribers)
    /\ shown' = Shown(subscribers, data')
    /\ UNCHANGED <<scenario, avars, vvars, disposed, wantLive, maxPoints, currentData, subscribers, unlisten,
                   disposers, backend, emitted, live, queue, seeded, pushed>>

TStartFail(i) ==
    /\ calls[i].kind = "start"
    /\ calls[i].pc = "rejected"
    /\ calls' = [calls EXCEPT ![i] = [@ EXCEPT !.pc = "failed"]]
    /\ notified' = <<>>
    /\ visited' = <<>>
    /\ shown' = <<>>
    /\ UNCHANGED <<scenario, avars, vvars, disposed, wantLive, maxPoints, data, currentData, subscribers,
                   unlisten, disposers, backend, emitted, live, queue, seeded,
                   pushed>>

\* line 284, the await resolves: the listener of this call is registered and
\* its UnlistenFn is stored, over whatever this.unlisten held
TStartAttach(i) ==
    /\ calls[i].kind = "start"
    /\ calls[i].pc = "listening"
    /\ live' = live \cup {i}
    /\ unlisten' = i
    /\ calls' = [calls EXCEPT ![i] = [@ EXCEPT !.pc = "done"]]
    /\ notified' = <<>>
    /\ visited' = <<>>
    /\ shown' = <<>>
    /\ UNCHANGED <<scenario, avars, vvars, disposed, wantLive, maxPoints, data, currentData, subscribers,
                   disposers, backend, emitted, queue, seeded, pushed>>

\* line 284 when onTelemetryUpdate rejects: the await throws out of start()
\* after lines 278-282 have run; no listener is registered, this.unlisten is
\* not assigned
TStartListenFail(i) ==
    /\ calls[i].kind = "start"
    /\ calls[i].pc = "listening"
    /\ calls' = [calls EXCEPT ![i] = [@ EXCEPT !.pc = "listenfailed"]]
    /\ notified' = <<>>
    /\ visited' = <<>>
    /\ shown' = <<>>
    /\ UNCHANGED <<scenario, avars, vvars, disposed, wantLive, maxPoints, data,
                   currentData, subscribers, unlisten, disposers, backend,
                   emitted, live, queue, seeded, pushed>>

\* ---- stop(), lines 291-296
TStopKeepsDisposer ==
    /\ IF unlisten # Null
         THEN live' = live \ {unlisten}
         ELSE UNCHANGED live
    /\ wantLive' = FALSE
    /\ notified' = <<>>
    /\ visited' = <<>>
    /\ shown' = <<>>
    /\ UNCHANGED <<scenario, avars, vvars, disposed, unlisten, maxPoints, data,
                   currentData, subscribers, calls, disposers, backend,
                   emitted, queue, seeded, pushed>>

TStop ==
    /\ IF unlisten # Null
         THEN /\ live' = live \ {unlisten}
              /\ unlisten' = Null
         ELSE UNCHANGED <<live, unlisten>>
    /\ wantLive' = FALSE
    /\ notified' = <<>>
    /\ visited' = <<>>
    /\ shown' = <<>>
    /\ UNCHANGED <<scenario, avars, vvars, disposed, maxPoints, data, currentData, subscribers, calls,
                   disposers, backend, emitted, queue, seeded, pushed>>

\* ---- the push handler, lines 284-288, run on one delivered event.  The
\* handler is given event.payload only (lines 206-208).  What was scheduled
\* for a listener before it was cancelled stays scheduled and may still run.
TDeliver(l) ==
    /\ queue[l] # <<>>
    /\ LET r == Head(queue[l]) IN
        /\ currentData' = r
        /\ data' = AppendWindow(data, r, maxPoints)
        /\ pushed' = Append(pushed, r)
    /\ notified' = Notify(subscribers)
    /\ visited' = Notify(subscribers)
    /\ shown' = Shown(subscribers, data')
    /\ queue' = [queue EXCEPT ![l] = Tail(@)]
    /\ UNCHANGED <<scenario, avars, vvars, disposed, wantLive, maxPoints, subscribers, unlisten, calls,
                   disposers, backend, emitted, live, seeded>>

\* ---- subscribe(callback), lines 298-305
TSubscribeSilent(c) ==
    /\ subscribers' = Append(subscribers, c)
    /\ notified' = <<>>
    /\ visited' = <<>>
    /\ shown' = <<>>
    /\ disposers' = disposers \cup {c}
    /\ UNCHANGED <<scenario, avars, vvars, disposed, wantLive, maxPoints, data,
                   currentData, unlisten, calls, backend, emitted, live,
                   queue, seeded, pushed>>

TSubscribe(c) ==
    /\ subscribers' = Append(subscribers, c)
    /\ notified' = <<c>>
    /\ visited' = <<>>
    /\ shown' = <<data>>
    /\ disposers' = disposers \cup {c}
    /\ UNCHANGED <<scenario, avars, vvars, disposed, wantLive, maxPoints, data, currentData, unlisten, calls,
                   backend, emitted, live, queue, seeded, pushed>>

\* the Disposer returned by subscribe(callback), lines 302-304
TDispose(c) ==
    /\ c \in disposers
    /\ subscribers' = FilterOut(subscribers, c)
    /\ disposed' = disposed \cup {c}
    /\ notified' = <<>>
    /\ visited' = <<>>
    /\ shown' = <<>>
    /\ UNCHANGED <<scenario, avars, vvars, wantLive, maxPoints, data, currentData, unlisten, calls,
                   disposers, backend, emitted, live, queue, seeded, pushed>>

\* ---- notify(), lines 323-325, when the callbacks it calls use the store
\* What a callback that uses the store does each time notify() calls it:
\* subscribe(cb), or call a Disposer of cb (if one exists).  react maps the
\* callbacks that do so to what they do; the others do nothing.
Reactions == [op : {"subscribe", "dispose"}, cb : Callbacks]

\* A pass in progress: O is the array forEach iterates, subs is
\* this.subscribers, same tells whether they are one array object, disp and
\* gone are the Disposers that exist and those that were called, visited are
\* the calls made by forEach, invoked all calls made so far.
\* subscribe(c) in a callback, lines 299-300: push on this.subscribers (the
\* iterated array, if it is still that one), then c's first call
PassSubscribe(p, c) ==
    [p EXCEPT !.subs = Append(@, c),
              !.O = IF p.same THEN Append(@, c) ELSE @,
              !.invoked = Append(@, c),
              !.disp = @ \cup {c}]

\* a Disposer of c in a callback, line 303: filter builds a new array and
\* this.subscribers is bound to it; the iterated array is not touched
PassDisposeInPlace(p, c) ==
    [p EXCEPT !.subs = FilterOut(@, c),
              !.O = IF p.same THEN FilterOut(@, c) ELSE @,
              !.gone = @ \cup {c}]

PassDispose(p, c) ==
    [p EXCEPT !.subs = FilterOut(@, c),
              !.same = FALSE,
              !.gone = @ \cup {c}]

\* forEach calls the callback at index k, and the callback reacts
PassCall(p, k, react) ==
    LET c == p.O[k]
        q == [p EXCEPT !.visited = Append(@, c), !.invoked = Append(@, c)]
    IN  IF c \notin DOMAIN react THEN q
        ELSE IF react[c].op = "subscribe" THEN PassSubscribe(q, react[c].cb)
        ELSE IF react[c].cb \in q.disp THEN PassDispose(q, react[c].cb)
        ELSE q

\* Array.prototype.forEach: the length is read once, before the first call;
\* an index that is no longer in the array is skipped
RECURSIVE ForEach(_, _, _, _)
ForEach(p, k, len, react) ==
    IF k > len THEN p
    ELSE IF k > Len(p.O) THEN ForEach(p, k + 1, len, react)
    ELSE ForEach(PassCall(p, k, react), k + 1, len, react)

NotifyPass(subs, disp, react) ==
    ForEach([O |-> subs, subs |-> subs, same |-> TRUE, disp |-> disp,
             gone |-> {}, visited |-> <<>>, invoked |-> <<>>],
            1, Len(subs), react)

\* the push handler, lines 284-288, with callbacks that react
TDeliverReentrant(l, react) ==
    /\ queue[l] # <<>>
    /\ LET r == Head(queue[l]) IN
        /\ currentData' = r
        /\ data' = AppendWindow(data, r, maxPoints)
        /\ pushed' = Append(pushed, r)
    /\ LET p == NotifyPass(subscribers, disposers, react) IN
        /\ subscribers' = p.subs
        /\ disposers' = p.disp
        /\ disposed' = disposed \cup p.gone
        /\ notified' = p.invoked
        /\ visited' = p.visited
        /\ shown' = Shown(p.invoked, data')
    /\ queue' = [queue EXCEPT ![l] = Tail(@)]
    /\ UNCHANGED <<scenario, avars, vvars, wantLive, maxPoints, unlisten, calls,
                   backend, emitted, live, seeded>>

\* ---- refresh(), lines 315-321
\* line 316, up to the await (the backend answers as for start())
TRefresh(i, ok) ==
    /\ NextCallId(i)
    /\ calls' = [calls EXCEPT ![i] =
                    IF ok THEN [kind |-> "refresh", pc |-> "fetched",
                                reply |-> GetTelemetry(StoreKey, maxPoints)]
                          ELSE [kind |-> "refresh", pc |-> "rejected",
                                reply |-> <<>>]]
    /\ notified' = <<>>
    /\ visited' = <<>>
    /\ shown' = <<>>
    /\ UNCHANGED <<scenario, avars, vvars, disposed, wantLive, maxPoints, data, currentData, subscribers,
                   unlisten, disposers, backend, emitted, live, queue, seeded,
                   pushed>>

\* lines 316-320, from the resolved await on
TRefreshSeedDropsListener(i) ==
    /\ calls[i].kind = "refresh"
    /\ calls[i].pc = "fetched"
    /\ LET existing == calls[i].reply IN
        /\ data' = existing
        /\ currentData' = LatestOf(existing, currentData)
        /\ seeded' = existing
    /\ pushed' = <<>>
    /\ notified' = Notify(subscribers)
    /\ visited' = Notify(subscribers)
    /\ shown' = Shown(subscribers, data')
    /\ live' = live \ {unlisten}
    /\ unlisten' = Null
    /\ calls' = [calls EXCEPT ![i] = [@ EXCEPT !.pc = "done", !.reply = <<>>]]
    /\ UNCHANGED <<scenario, avars, vvars, disposed, wantLive, maxPoints,
                   subscribers, disposers, backend, emitted, queue>>

TRefreshSeed(i) ==
    /\ calls[i].kind = "refresh"
    /\ calls[i].pc = "fetched"
    /\ LET existing == calls[i].reply IN
        /\ data' = existing
        /\ currentData' = LatestOf(existing, currentData)
        /\ seeded' = existing
    /\ pushed' = <<>>
    /\ notified' = Notify(subscribers)
    /\ visited' = Notify(subscribers)
    /\ shown' = Shown(subscribers, data')
    /\ calls' = [calls EXCEPT ![i] = [@ EXCEPT !.pc = "done", !.reply = <<>>]]
    /\ UNCHANGED <<scenario, avars, vvars, disposed, wantLive, maxPoints, subscribers, unlisten, disposers,
                   backend, emitted, live, queue>>

\* line 316 when get_telemetry rejects: the await throws out of refresh()
TRefreshFail(i) ==
    /\ calls[i].kind = "refresh"
    /\ calls[i].pc = "rejected"
    /\ calls' = [calls EXCEPT ![i] = [@ EXCEPT !.pc = "failed"]]
    /\ notified' = <<>>
    /\ visited' = <<>>
    /\ shown' = <<>>
    /\ UNCHANGED <<scenario, avars, vvars, disposed, wantLive, maxPoints, data, currentData, subscribers,
                   unlisten, disposers, backend, emitted, live, queue, seeded,
                   pushed>>

\* -------------------------------------------------------------- VideoStore
\* One VideoStore per key; the listener of store s is named s.
\* no store has called a subscriber
AllQuiet == [s \in Keys |-> <<>>]

\* add_video_frame(key, frame): the backend keeps the frame as the key's
\* latest and emits it on video-frame-update to every registered listener.
VEmit(k) ==
    /\ LET t == Len(frames) + 1 IN
        /\ frames' = Append(frames, k)
        /\ latestFrame' = [latestFrame EXCEPT ![k] = t]
        /\ vQueue' = [l \in Keys |->
                        IF l \in vLive THEN Append(vQueue[l], t) ELSE vQueue[l]]
    /\ vNotified' = AllQuiet
    /\ vShown' = AllQuiet
    /\ UNCHANGED <<scenario, avars, tvars, vRefresh, currentFrame, vSubscribers, vUnlisten,
                   vCall, vDisposers, vLive>>

\* line 342, up to the await: get_latest_video_frame(key) is requested and the
\* backend answers with the key's latest frame (ok) or rejects (~ok)
VStart(s, ok) ==
    /\ vCall[s].pc = "none"
    /\ vCall' = [vCall EXCEPT ![s] =
                    IF ok THEN [pc |-> "fetched", reply |-> latestFrame[s]]
                          ELSE [pc |-> "rejected", reply |-> Null]]
    /\ vNotified' = AllQuiet
    /\ vShown' = AllQuiet
    /\ UNCHANGED <<scenario, avars, tvars, vRefresh, currentFrame, vSubscribers, vUnlisten,
                   vDisposers, latestFrame, frames, vLive, vQueue>>

\* lines 342-347, from the resolved await to the next one
VStartSeed(s) ==
    /\ vCall[s].pc = "fetched"
    /\ currentFrame' = [currentFrame EXCEPT ![s] = vCall[s].reply]
    /\ vNotified' = [AllQuiet EXCEPT ![s] = Notify(vSubscribers[s])]
    /\ vShown' = [AllQuiet EXCEPT ![s] = Shown(vSubscribers[s], currentFrame'[s])]
    /\ vCall' = [vCall EXCEPT ![s] = [pc |-> "listening", reply |-> Null]]
    /\ UNCHANGED <<scenario, avars, tvars, vRefresh, vSubscribers, vUnlisten, vDisposers,
                   latestFrame, frames, vLive, vQueue>>

\* line 342 when get_latest_video_frame rejects: the await throws out of
\* start() before currentFrame is assigned
VStartFail(s) ==
    /\ vCall[s].pc = "rejected"
    /\ vCall' = [vCall EXCEPT ![s] = [pc |-> "failed", reply |-> Null]]
    /\ vNotified' = AllQuiet
    /\ vShown' = AllQuiet
    /\ UNCHANGED <<scenario, avars, tvars, vRefresh, currentFrame, vSubscribers, vUnlisten,
                   vDisposers, latestFrame, frames, vLive, vQueue>>

\* line 347, the await resolves
VStartAttach(s) ==
    /\ vCall[s].pc = "listening"
    /\ vLive' = vLive \cup {s}
    /\ vUnlisten' = [vUnlisten EXCEPT ![s] = s]
    /\ vCall' = [vCall EXCEPT ![s] = [pc |-> "done", reply |-> Null]]
    /\ vNotified' = AllQuiet
    /\ vShown' = AllQuiet
    /\ UNCHANGED <<scenario, avars, tvars, vRefresh, currentFrame, vSubscribers, vDisposers,
                   latestFrame, frames, vQueue>>

\* stop(), lines 355-360
VStop(s) ==
    /\ IF vUnlisten[s] # NoListener
         THEN /\ vLive' = vLive \ {vUnlisten[s]}
              /\ vUnlisten' = [vUnlisten EXCEPT ![s] = NoListener]
         ELSE UNCHANGED <<vLive, vUnlisten>>
    /\ vNotified' = AllQuiet
    /\ vShown' = AllQuiet
    /\ UNCHANGED <<scenario, avars, tvars, vRefresh, currentFrame, vSubscribers, vCall,
                   vDisposers, latestFrame, frames, vQueue>>

\* the frame handler, lines 347-352, run on one delivered event: it is given
\* event.payload only (lines 217-219) and compares nothing with this.key
VDeliver(s) ==
    /\ vQueue[s] # <<>>
    /\ currentFrame' = [currentFrame EXCEPT ![s] = Head(vQueue[s])]
    /\ vNotified' = [AllQuiet EXCEPT ![s] = Notify(vSubscribers[s])]
    /\ vShown' = [AllQuiet EXCEPT ![s] = Shown(vSubscribers[s], currentFrame'[s])]
    /\ vQueue' = [vQueue EXCEPT ![s] = Tail(@)]
    /\ UNCHANGED <<scenario, avars, tvars, vRefresh, vSubscribers, vUnlisten, vCall,
                   vDisposers, latestFrame, frames, vLive>>

\* subscribe(callback), lines 362-369
VSubscribe(s, c) ==
    /\ vSubscribers' = [vSubscribers EXCEPT ![s] = Append(@, c)]
    /\ vNotified' = [AllQuiet EXCEPT ![s] = <<c>>]
    /\ vShown' = [AllQuiet EXCEPT ![s] = <<currentFrame[s]>>]
    /\ vDisposers' = [vDisposers EXCEPT ![s] = @ \cup {c}]
    /\ UNCHANGED <<scenario, avars, tvars, vRefresh, currentFrame, vUnlisten, vCall,
                   latestFrame, frames, vLive, vQueue>>

\* the Disposer returned by subscribe(callback), lines 366-368
VDispose(s, c) ==
    /\ c \in vDisposers[s]
    /\ vSubscribers' = [vSubscribers EXCEPT ![s] = FilterOut(@, c)]
    /\ vNotified' = AllQuiet
    /\ vShown' = AllQuiet
    /\ UNCHANGED <<scenario, avars, tvars, vRefresh, currentFrame, vUnlisten, vCall,
                   vDisposers, latestFrame, frames, vLive, vQueue>>

\* refresh(), lines 375-378
\* line 376, up to the await (the backend answers as for start())
VRefresh(s, ok) ==
    /\ vRefresh[s].pc = "none"
    /\ vRefresh' = [vRefresh EXCEPT ![s] =
                    IF ok THEN [pc |-> "fetched", reply |-> latestFrame[s]]
                          ELSE [pc |-> "rejected", reply |-> Null]]
    /\ vNotified' = AllQuiet
    /\ vShown' = AllQuiet
    /\ UNCHANGED <<scenario, avars, tvars, currentFrame, vSubscribers,
                   vUnlisten, vCall, vDisposers, latestFrame, frames, vLive,
                   vQueue>>

\* lines 376-377, from the resolved await on
VRefreshSeed(s) ==
    /\ vRefresh[s].pc = "fetched"
    /\ currentFrame' = [currentFrame EXCEPT ![s] = vRefresh[s].reply]
    /\ vNotified' = [AllQuiet EXCEPT ![s] = Notify(vSubscribers[s])]
    /\ vShown' = [AllQuiet EXCEPT ![s] = Shown(vSubscribers[s], currentFrame'[s])]
    /\ vRefresh' = [vRefresh EXCEPT ![s] = [pc |-> "done", reply |-> Null]]
    /\ UNCHANGED <<scenario, avars, tvars, vSubscribers, vUnlisten, vCall,
                   vDisposers, latestFrame, frames, vLive, vQueue>>

\* line 376 when get_latest_video_frame rejects
VRefreshFail(s) ==
    /\ vRefresh[s].pc = "rejected"
    /\ vRefresh' = [vRefresh EXCEPT ![s] = [pc |-> "failed", reply |-> Null]]
    /\ vNotified' = AllQuiet
    /\ vShown' = AllQuiet
    /\ UNCHANGED <<scenario, avars, tvars, currentFrame, vSubscribers,
                   vUnlisten, vCall, vDisposers, latestFrame, frames, vLive,
                   vQueue>>

\* ----------------------------------------------------------- App component
\* const MAX_DATA_SIZE = 1000
MAX_DATA_SIZE == 1000

\* a value for which Number.isFinite is false
NaN == -1
IsFinite(v) == v # NaN

\* String(y) of a non-negative integer
Digits == <<"0", "1", "2", "3", "4", "5", "6", "7", "8", "9">>
RECURSIVE NumberToString(_)
NumberToString(n) ==
    IF n < 10 THEN Digits[n + 1]
    ELSE NumberToString(n \div 10) \o Digits[(n % 10) + 1]

\* strings the backend answers start_data_sim / stop_data_sim with
SimReplies == {"started", "stopped"}

\* s without its element at index j
RemoveAt(s, j) == SubSeq(s, 1, j - 1) \o SubSeq(s, j + 1, Len(s))

\* the updater of setData, lines 45-49
AppendPoint(curr, pt) ==
    LET next == curr \o <<pt>>
    IN  IF Len(next) > MAX_DATA_SIZE THEN Tail(next) ELSE next

\* the simulation emits one sim_data event: the packet's loopCount counts the
\* events, its altitude is that number or not a finite number
ASimEmit(finite) ==
    /\ simSent' = simSent + 1
    /\ LET pkt == [loopCount |-> simSent + 1,
                   altitude |-> IF finite THEN simSent + 1 ELSE NaN]
       IN  simQueue' = [l \in AppListeners |->
                          IF l \in simLive THEN Append(simQueue[l], pkt)
                                           ELSE simQueue[l]]
    /\ UNCHANGED <<scenario, tvars, vvars, simCmds, submits, appPc, appCleaned, unsubsArrays,
                   unsubsRef, appData, serverResponse, simRunning, simLive>>

\* the component mounts and its effect runs, lines 30-55: unsubs is bound to
\* a new array (index 1) and the async function runs up to its await, where
\* unsubs.push has been evaluated on that array and listen() is pending
AMount ==
    /\ appPc = "none"
    /\ appPc' = "listening"
    /\ unsubsRef' = 1
    /\ unsubsArrays' = [unsubsArrays EXCEPT ![1] = <<>>]
    /\ UNCHANGED <<scenario, tvars, vvars, simCmds, submits, appCleaned, appData, serverResponse,
                   simRunning, simSent, simLive, simQueue>>

\* lines 35-54, the await resolves: the listener is registered and its
\* UnlistenFn is pushed on the array unsubs.push was evaluated on
AListenResolve ==
    /\ appPc = "listening"
    /\ simLive' = simLive \cup {"sim"}
    /\ unsubsArrays' = [unsubsArrays EXCEPT ![1] = Append(@, "sim")]
    /\ appPc' = "done"
    /\ UNCHANGED <<scenario, tvars, vvars, simCmds, submits, appCleaned, unsubsRef, appData,
                   serverResponse, simRunning, simSent, simQueue>>

\* the component unmounts and the cleanup runs, lines 57-60: every UnlistenFn
\* in the array unsubs is bound to is called, then unsubs is bound to a new
\* array (index 2)
ACleanup ==
    /\ appPc # "none"
    /\ ~appCleaned
    /\ simLive' = simLive \ Range(unsubsArrays[unsubsRef])
    /\ unsubsRef' = 2
    /\ appCleaned' = TRUE
    /\ UNCHANGED <<scenario, tvars, vvars, simCmds, submits, appPc, unsubsArrays, appData,
                   serverResponse, simRunning, simSent, simQueue>>

\* the sim_data handler, lines 36-53, run on one delivered event.  The state
\* setters act on a mounted component only.
ASimDeliver(l) ==
    /\ simQueue[l] # <<>>
    /\ simQueue' = [simQueue EXCEPT ![l] = Tail(@)]
    /\ LET pkt == Head(simQueue[l])
           x == pkt.loopCount
           y == pkt.altitude
       IN  IF ~IsFinite(x) \/ ~IsFinite(y) \/ appCleaned
             THEN UNCHANGED <<appData, serverResponse, simRunning>>
             ELSE /\ appData' = AppendPoint(appData, [x |-> x, y |-> y])
                  /\ serverResponse' = NumberToString(y)
                  /\ simRunning' = TRUE
    /\ UNCHANGED <<scenario, tvars, vvars, simCmds, submits, appPc, appCleaned, unsubsArrays,
                   unsubsRef, simSent, simLive>>

\* the form is submitted, lines 71-79 and 15-17 / 21-23 up to the await:
\* stop_data_sim() when the rendered simRunning is true, start_data_sim()
\* otherwise; the call is suspended at its invoke()
ASubmit ==
    /\ appPc # "none"
    /\ ~appCleaned
    /\ simCmds' = Append(simCmds, IF simRunning THEN "stop" ELSE "start")
    /\ submits' = submits + 1
    /\ UNCHANGED <<scenario, tvars, vvars, appPc, appCleaned, unsubsArrays,
                   unsubsRef, appData, serverResponse, simRunning, simSent,
                   simLive, simQueue>>

\* lines 17-18 / 23-24, the invoke() of pending call j resolves with reply:
\* setServerResponse(reply), then setSimRunning(true) for start_data_sim and
\* setSimRunning(false) for stop_data_sim.  The state setters act on a
\* mounted component only.
ASimCommandReply(j, reply) ==
    /\ j \in 1..Len(simCmds)
    /\ simCmds' = RemoveAt(simCmds, j)
    /\ IF appCleaned
         THEN UNCHANGED <<serverResponse, simRunning>>
         ELSE /\ serverResponse' = reply
              /\ simRunning' = (simCmds[j] = "start")
    /\ UNCHANGED <<scenario, tvars, vvars, submits, appPc, appCleaned,
                   unsubsArrays, unsubsRef, appData, simSent, simLive,
                   simQueue>>

\* lines 17 / 23 when the invoke() of pending call j rejects: the await
\* throws out of the function before any setter is called
ASimCommandReject(j) ==
    /\ j \in 1..Len(simCmds)
    /\ simCmds' = RemoveAt(simCmds, j)
    /\ UNCHANGED <<scenario, tvars, vvars, submits, appPc, appCleaned,
                   unsubsArrays, unsubsRef, appData, serverResponse,
                   simRunning, simSent, simLive, simQueue>>

\* ------------------------------------------------------------------ runs
\* What the UI and the producer do in a run:
\*   "lifecycle"  the store is started and stopped in any order, its starts
\*                overlapping, while the producer writes to its stream;
\*   "refreshing" the store is started at most once, stopped and refreshed
\*                in any order while the producer writes to its stream and
\*                the UI clears it;
\*   "window"     the store is started once and left running while the
\*                producer writes a longer run of records to any stream;
\*   "fanout"     callbacks subscribe and dispose while the store is started
\*                once and stopped and the producer writes to its stream;
\*   "reentrant"  callbacks subscribe and dispose, from the UI and from
\*                inside the notification of the first push event, while the
\*                store is started once and the producer writes to its
\*                stream;
\*   "zerocap"    the store is constructed with maxPoints = 0 and started
\*                once while the producer writes to its stream;
\*   "app"        the App component is mounted and unmounted once, its form
\*                submitted, while the simulation emits sim_data events;
\*   "observed"   callbacks subscribe, each once, to a store that was not
\*                started yet and stay subscribed; the store is stopped
\*                at any time and started or refreshed twice, one call
\*                after the other, while the producer writes to its stream;
\*   "video"      one VideoStore per camera key, each started once and
\*                stopped, one callback subscribing once to the store of
\*                StoreKey, while the cameras emit frames;
\*   "videorefresh" the VideoStore of StoreKey, one callback subscribing to
\*                it once, is started once, stopped and refreshed once in
\*                any order while the cameras emit frames.
Lifecycle == scenario = "lifecycle"
Window == scenario = "window"
Refreshing == scenario = "refreshing"
Fanout == scenario = "fanout"
Video == scenario = "video"
Observed == scenario = "observed"
VideoRefresh == scenario = "videorefresh"
Reentrant == scenario = "reentrant"
ZeroCap == scenario = "zerocap"
InApp == scenario = "app"

StartCalls == {i \in CallIds : calls[i].kind = "start"}

\* no start() or refresh() call is suspended at an await
NoCallPending ==
    \A i \in CallIds : calls[i].pc \in {"none", "done", "failed", "listenfailed"}

Next ==
    \/ (Lifecycle \/ Refreshing \/ Fanout \/ Observed \/ Reentrant \/ ZeroCap)
            /\ Len(emitted) < MaxEmit /\ TEmit(StoreKey)
    \/ Window /\ Len(emitted) < MaxAppend /\ \E k \in Keys : TEmit(k)
    \/ Refreshing /\ TClearKey(StoreKey)
    \/ Lifecycle /\ \E i \in CallIds, ok \in BOOLEAN : TStart(i, ok)
    \/ Fanout /\ \E ok \in BOOLEAN : TStart(1, ok)
    \/ Refreshing /\ StartCalls = {} /\ \E i \in CallIds : TStart(i, TRUE)
    \/ (Window \/ Reentrant \/ ZeroCap) /\ TStart(1, TRUE)
    \/ Observed /\ NoCallPending /\ \E i \in 1..2 : TStart(i, TRUE)
    \/ \E i \in CallIds : TStartSeed(i)
    \/ \E i \in CallIds : TStartFail(i)
    \/ \E i \in CallIds : TStartAttach(i)
    \/ Fanout /\ \E i \in CallIds : TStartListenFail(i)
    \/ (Lifecycle \/ Refreshing \/ Fanout) /\ TStop
    \/ Observed /\ NoCallPending /\ TStop
    \/ \E l \in CallIds : TDeliver(l)
    \/ Reentrant /\ pushed = <<>>
            /\ \E l \in CallIds, S \in SUBSET Callbacks :
                    \E react \in [S -> Reactions] : TDeliverReentrant(l, react)
    \/ Refreshing /\ \E i \in CallIds, ok \in BOOLEAN : TRefresh(i, ok)
    \/ Observed /\ NoCallPending /\ \E i \in 1..2 : TRefresh(i, TRUE)
    \/ \E i \in CallIds : TRefreshSeed(i)
    \/ \E i \in CallIds : TRefreshFail(i)
    \/ (Fanout \/ Reentrant) /\ Len(subscribers) < MaxSubs
            /\ \E c \in Callbacks : TSubscribe(c)
    \/ Observed /\ StartCalls = {} /\ \E c \in Callbacks \ disposers : TSubscribe(c)
    \/ ~Observed /\ \E c \in Callbacks : TDispose(c)
    \/ (Video \/ VideoRefresh) /\ Len(frames) < MaxFrames /\ \E k \in Keys : VEmit(k)
    \/ Video /\ \E s \in Keys, ok \in BOOLEAN : VStart(s, ok)
    \/ VideoRefresh /\ VStart(StoreKey, TRUE)
    \/ \E s \in Keys : VStartSeed(s)
    \/ \E s \in Keys : VStartFail(s)
    \/ \E s \in Keys : VStartAttach(s)
    \/ Video /\ \E s \in Keys : VStop(s)
    \/ VideoRefresh /\ VStop(StoreKey)
    \/ VideoRefresh /\ \E ok \in BOOLEAN : VRefresh(StoreKey, ok)
    \/ \E s \in Keys : VRefreshSeed(s)
    \/ \E s \in Keys : VRefreshFail(s)
    \/ \E s \in Keys : VDeliver(s)
    \/ (Video \/ VideoRefresh) /\ vDisposers[StoreKey] = {} /\ VSubscribe(StoreKey, "cb1")
    \/ VDispose(StoreKey, "cb1")
    \/ InApp /\ simSent < MaxSim /\ \E finite \in BOOLEAN : ASimEmit(finite)
    \/ InApp /\ AMount
    \/ AListenResolve
    \/ ACleanup
    \/ \E l \in AppListeners : ASimDeliver(l)
    \/ InApp /\ submits < MaxSubmit /\ ASubmit
    \/ \E j \in 1..MaxSubmit, reply \in SimReplies : ASimCommandReply(j, reply)
    \/ \E j \in 1..MaxSubmit : ASimCommandReject(j)

Spec == Init /\ [][Next]_vars

\* ---------------------------------------------------------------- claims
\* the last n elements of s, in order (all of s when it is shorter)
LastN(s, n) ==
    LET m == Min(n, Len(s)) IN [j \in 1..m |-> s[Len(s) - m + j]]

Finished(i) == calls[i].pc \in {"done", "failed", "listenfailed"}

\* the timestamps the producer emitted for key k, in emission order
RECURSIVE EmittedUpTo(_, _)
EmittedUpTo(k, t) ==
    IF t = 0 THEN <<>>
    ELSE IF emitted[t] = k THEN Append(EmittedUpTo(k, t - 1), t)
    ELSE EmittedUpTo(k, t - 1)
EmittedFor(k) == EmittedUpTo(k, Len(emitted))

\* C1: for a store constructed with maxPoints >= 1, in every reachable state,
\* also right after start() or refresh() seeded the buffer from the backend's
\* reply, getAllData() holds at most maxPoints records.
C1_WindowBounded == maxPoints >= 1 => Len(data) <= maxPoints

\* a push arrived on a window that a non-empty snapshot and earlier pushes had
\* already filled
C1_Witness ==
    /\ seeded # <<>>
    /\ pushed # <<>>
    /\ Len(seeded) + Len(pushed) > maxPoints
    /\ Len(data) = maxPoints

\* C2: for a store constructed with maxPoints >= 1, after a start() with an
\* empty snapshot, the window is the last min(maxPoints, number of pushes)
\* pushed records in arrival order, and the current record is the latest
\* push.
C2_LastAppended ==
    (maxPoints >= 1 /\ seeded = <<>>) =>
        /\ data = LastN(pushed, maxPoints)
        /\ Len(data) = Min(maxPoints, Len(pushed))
        /\ pushed # <<>> => currentData = pushed[Len(pushed)]

\* capacity 3 received the records 1..5 after an empty snapshot: the window
\* is [3, 4, 5] and the latest record is 5
C2_Witness ==
    /\ seeded = <<>>
    /\ maxPoints = 3
    /\ pushed = <<1, 2, 3, 4, 5>>
    /\ data = <<3, 4, 5>>
    /\ currentData = 5

\* C3: after any sequence of start() and stop() calls the store has at most
\* one live Event Bridge listener.
C3_AtMostOneListener == Cardinality(live) <= 1

\* C4: when stop() is the latest lifecycle call and the only start() made has
\* finished (so stop() ran after it or while it was suspended), the store has
\* no live listener.
C4_StopLeavesNoListener ==
    (/\ Cardinality(StartCalls) = 1
     /\ \A i \in StartCalls : Finished(i)
     /\ ~wantLive)
    => live = {}

\* C5: getCurrentData() is the last record of the buffer, and null when the
\* buffer is empty (stated for a store that start() was called on at most
\* once, so that no two seedings of start() overlap).
C5_CurrentIsLast ==
    Cardinality(StartCalls) <= 1 =>
        currentData = (IF data = <<>> THEN Null ELSE data[Len(data)])

\* C6: every append of a push event calls each callback registered at that
\* moment exactly once.
C6_FanoutExactlyOnce ==
    [][Len(pushed') = Len(pushed) + 1 =>
          \A c \in Range(subscribers) : Count(notified', c) = 1]_vars

\* C7: a frame emitted for another key that is delivered to the listener of
\* the VideoStore for key s neither changes that store's current frame nor
\* notifies its subscribers.
C7_ForeignFrameIgnored ==
    [][\A s \in Keys :
          (/\ vQueue[s] # <<>>
           /\ frames[Head(vQueue[s])] # s
           /\ VDeliver(s))
          => /\ currentFrame'[s] = currentFrame[s]
             /\ vNotified'[s] = <<>>]_vars

\* C8: once a store that was started once is live and nothing is in flight
\* (no call suspended, no event scheduled), its window is the last maxPoints
\* records the producer emitted for its stream, each once, none missing.
\* (The stream was not cleared and no other stream was written.)
C8_NoGapNoDuplicate ==
    (/\ Cardinality(StartCalls) = 1
     /\ \A i \in CallIds : calls[i].kind # "none" => calls[i].pc = "done"
     /\ live # {}
     /\ \A l \in live : queue[l] = <<>>
     /\ backend[StoreKey] = EmittedFor(StoreKey)
     /\ Len(EmittedFor(StoreKey)) = Len(emitted))
    => data = LastN(EmittedFor(StoreKey), maxPoints)

\* C9: a push event delivered to a listener that stop() has cancelled changes
\* neither the buffer nor the current record and notifies nobody.
C9_StaleDeliveryIgnored ==
    [][\A l \in CallIds :
          (l \notin live /\ TDeliver(l)) =>
              /\ data' = data
              /\ currentData' = currentData
              /\ notified' = <<>>]_vars

\* C10: a start() whose snapshot fetch rejected has attached no listener, and
\* the task in which it fails leaves buffer, current record (current frame),
\* subscriber set, listener and stored disposer as they were and calls no
\* subscriber; the store can be started again afterwards.  Stated for the
\* TelemetryStore and for the VideoStores.
C10_FailedStartChangesNothing ==
    /\ [](\A i \in CallIds :
            calls[i].pc \in {"rejected", "failed"} =>
                i \notin live /\ queue[i] = <<>> /\ unlisten # i)
    /\ [][\A i \in CallIds :
            (calls[i].pc = "rejected" /\ calls'[i].pc = "failed") =>
                /\ data' = data
                /\ currentData' = currentData
                /\ subscribers' = subscribers
                /\ live' = live
                /\ unlisten' = unlisten
                /\ notified' = <<>>]_vars
    /\ [](\A s \in Keys :
            vCall[s].pc \in {"rejected", "failed"} =>
                s \notin vLive /\ vQueue[s] = <<>> /\ vUnlisten[s] = NoListener)
    /\ [][\A s \in Keys :
            (vCall[s].pc = "rejected" /\ vCall'[s].pc = "failed") =>
                /\ currentFrame' = currentFrame
                /\ vSubscribers' = vSubscribers
                /\ vLive' = vLive
                /\ vUnlisten' = vUnlisten
                /\ vNotified'[s] = <<>>]_vars

\* a start() failed on a store that held data, and the retry went live
C10_Witness ==
    \E i, j \in CallIds :
        /\ i < j
        /\ calls[i].kind = "start" /\ calls[i].pc = "failed"
        /\ calls[j].kind = "start" /\ calls[j].pc = "done"
        /\ live = {j}
        /\ data # <<>>

\* C11: a start() whose event-bridge subscription was refused leaves the
\* store as it was before the call: for a store on which this start() is the
\* only call ever made, the buffer is still empty and the current record null
\* (nothing else can have written to a store that never had a listener).
C11_FailedListenKeepsPriorState ==
    \A i \in CallIds :
        (/\ calls[i].pc = "listenfailed"
         /\ \A j \in CallIds \ {i} : calls[j].pc = "none")
        => data = <<>> /\ currentData = Null

\* C12: the task that registers a callback (subscribe on a TelemetryStore or
\* on a VideoStore, whatever state the store is in) calls that callback once
\* and nothing else, hands it the store's current window (current frame), an
\* empty window or a null frame included, and leaves the window (the frame)
\* as it was.
C12_SubscribeDeliversCurrent ==
    [][/\ \A c \in Callbacks :
            (subscribers' = Append(subscribers, c) /\ queue' = queue) =>
                /\ notified' = <<c>>
                /\ shown' = <<data>>
                /\ data' = data
       /\ \A s \in Keys, c \in Callbacks :
            vSubscribers'[s] = Append(vSubscribers[s], c) =>
                /\ vNotified'[s] = <<c>>
                /\ vShown'[s] = <<currentFrame[s]>>
                /\ currentFrame' = currentFrame]_vars

\* a callback subscribed to a live store whose window is empty and was handed
\* the empty window
C12_Witness ==
    /\ live # {}
    /\ data = <<>>
    /\ subscribers # <<>>
    /\ notified = <<subscribers[Len(subscribers)]>>
    /\ visited = <<>>
    /\ shown = << <<>> >>

\* start() call j runs on a store that an earlier start() made live and a
\* stop() has cancelled since
Restarted(j) ==
    /\ calls[j].kind = "start"
    /\ \E i \in CallIds :
        i < j /\ calls[i].kind = "start" /\ calls[i].pc = "done" /\ i \notin live

\* C13: stop() leaves buffer and subscribers alone; when a start() that
\* follows it seeds the store, the buffer becomes exactly the snapshot this
\* start() fetched, the subscribers are those registered before, each is
\* called once with the new window, and the completion of the start() adds
\* its listener without touching buffer or subscribers.
C13_RestartReseeds ==
    [][/\ (wantLive /\ ~wantLive') =>
            subscribers' = subscribers /\ data' = data
       /\ \A j \in CallIds : Restarted(j) =>
            /\ (calls[j].pc = "fetched" /\ calls'[j].pc = "listening") =>
                    /\ data' = calls[j].reply
                    /\ subscribers' = subscribers
                    /\ notified' = subscribers
                    /\ shown' = Shown(subscribers, calls[j].reply)
            /\ (calls[j].pc = "listening" /\ calls'[j].pc = "done") =>
                    /\ data' = data
                    /\ subscribers' = subscribers
                    /\ j \in live']_vars

\* a store of capacity 1 was started, stopped and started again; the second
\* start() has just seeded it with the snapshot [2] and shown that window to
\* both subscribers
C13_Witness ==
    /\ maxPoints = 1
    /\ calls[1].kind = "start" /\ calls[1].pc = "done" /\ 1 \notin live
    /\ calls[2].kind = "start" /\ calls[2].pc = "listening"
    /\ Len(subscribers) = 2
    /\ notified = subscribers
    /\ data = <<2>>
    /\ shown = <<data, data>>

\* C14: the disposer a store holds always belongs to a listener that is
\* still registered, and stop() forgets it when it calls it, so no disposer
\* is called twice; a stop() on a store that holds none (stopped before, or
\* never started) changes neither listeners, buffer, current record (frame)
\* nor subscribers.  Stated for the TelemetryStore and for the VideoStores.
C14_StopIdempotent ==
    /\ [](unlisten # Null => unlisten \in live)
    /\ [][TStop =>
            /\ unlisten' = Null
            /\ live' = live \ {unlisten}
            /\ data' = data
            /\ currentData' = currentData
            /\ subscribers' = subscribers
            /\ notified' = <<>>]_vars
    /\ [](\A s \in Keys : vUnlisten[s] # NoListener => vUnlisten[s] \in vLive)
    /\ [][\A s \in Keys : VStop(s) =>
            /\ vUnlisten'[s] = NoListener
            /\ vLive' = vLive \ {vUnlisten[s]}
            /\ currentFrame' = currentFrame
            /\ vSubscribers' = vSubscribers
            /\ vNotified'[s] = <<>>]_vars

\* a store with subscribers and data was started and stopped: it holds no
\* disposer, and another stop() finds nothing to do
C14_Witness ==
    /\ calls[1].kind = "start" /\ calls[1].pc = "done"
    /\ ~wantLive
    /\ unlisten = Null
    /\ live = {}
    /\ data # <<>>
    /\ subscribers # <<>>

\* C15: no task of a refresh() (the call, the seeding, the failure) adds or
\* cancels a listener, changes the stored disposer or drops a scheduled
\* event; the seeding makes the buffer (the current frame) the reply of this
\* refresh() and calls every registered callback once with it, whatever
\* state the store is in.  Stated for the TelemetryStore and the VideoStores.
C15_RefreshKeepsSubscription ==
    [][/\ \A i \in CallIds :
            (calls'[i] # calls[i] /\ calls'[i].kind = "refresh") =>
                /\ unlisten' = unlisten
                /\ live' = live
                /\ queue' = queue
                /\ subscribers' = subscribers
                /\ (calls'[i].pc = "done" =>
                        /\ data' = calls[i].reply
                        /\ notified' = subscribers
                        /\ shown' = Shown(subscribers, calls[i].reply))
       /\ \A s \in Keys :
            vRefresh'[s] # vRefresh[s] =>
                /\ vUnlisten' = vUnlisten
                /\ vLive' = vLive
                /\ vQueue' = vQueue
                /\ vSubscribers' = vSubscribers
                /\ (vRefresh'[s].pc = "done" =>
                        /\ currentFrame'[s] = vRefresh[s].reply
                        /\ vNotified'[s] = vSubscribers[s]
                        /\ vShown'[s] = Shown(vSubscribers[s], vRefresh[s].reply))]_vars

\* a live store with subscribers was refreshed and a push event arrived
\* after the refresh: the listener of its start() is still the registered
\* one, and the subscribers were called with the refreshed window plus the
\* pushed record
C15_Witness ==
    /\ calls[1].kind = "start" /\ calls[1].pc = "done"
    /\ calls[2].kind = "refresh" /\ calls[2].pc = "done"
    /\ live = {1}
    /\ unlisten = 1
    /\ seeded # <<>>
    /\ pushed # <<>>
    /\ Len(subscribers) = 2
    /\ notified = subscribers
    /\ shown = <<data, data>>

\* C16: calling a Disposer of subscribe(c) that was called before leaves the
\* subscribers as they are, also when c was subscribed again in between.
\* (Every Disposer of c runs the same filter on the same callback, so the
\* Disposer called first and the one returned by the later subscribe(c) are
\* one operation TDispose(c); disposed tells that the first has been called.)
C16_SecondDisposeIsNoOp ==
    [][\A c \in Callbacks :
          (c \in disposed /\ TDispose(c)) => subscribers' = subscribers]_vars

\* C17: the forEach of a notification pass calls exactly the callbacks that
\* were registered when the pass began, in order, one call per registration:
\* a callback subscribed during the pass is not called by the pass (its only
\* call in that task is the first call made by subscribe), and a callback
\* whose Disposer another callback called during the pass is still called.
C17_PassIteratesSnapshot ==
    [][Len(pushed') = Len(pushed) + 1 => visited' = subscribers]_vars

\* a pass over [cb1, cb2] in which cb2 was disposed before its turn and
\* still called, and cb1 was subscribed again: that registration got its
\* first call from subscribe and none from the pass
C17_Witness ==
    /\ visited = <<"cb1", "cb2">>
    /\ notified = <<"cb1", "cb2", "cb1">>
    /\ subscribers = <<"cb1", "cb1">>
    /\ "cb2" \in disposed

\* C18: no store has capacity 0, and no store holds more records than its
\* capacity.
C18_NoZeroCapacityStore == maxPoints >= 1 /\ Len(data) <= maxPoints

\* C19: every record in the window of the store for StoreKey is a record the
\* producer emitted for StoreKey.
C19_OnlyOwnStream == \A j \in 1..Len(data) : emitted[data[j]] = StoreKey

\* C20: once the effect's cleanup has run and its listen() call has
\* resolved, in whichever order, no sim_data listener is registered.
C20_ListenerReleased ==
    (appCleaned /\ appPc = "done") => simLive = {}
====
